---------------------------- MODULE Spec2Model ----------------------------
(***************************************************************************)
(* A model of the fetch-and-deduplication engine of                        *)
(* src/src/reddit_social_listening/scraper.py: the pacing controller       *)
(* (_enforce_min_delay), the request executor (request_json), the event    *)
(* log (_append_scrape_log, _emit_progress), the pagination walker         *)
(* (search_subreddit_keyword), normalize_post, merge_post_metadata,        *)
(* deduplicate_posts, fetch_post_comments and the crawl orchestrator       *)
(* (scrape_subreddit_keywords).                                            *)
(*                                                                         *)
(* Python's None is the string "None"; a JSON value is a record            *)
(* [kind, children, after]; time is counted in whole seconds.              *)
(***************************************************************************)
EXTENDS Integers, Sequences, FiniteSets, TLC

\* ------------------------------------------------------------------------
\* Program constants (scraper.py:23-25)
\* ------------------------------------------------------------------------
MIN_REQUEST_DELAY_SECONDS == 6
MAX_RETRIES == 3
RATE_LIMIT_WAIT_SECONDS == 60

\* The set literal of search_subreddit_keyword's validation (scraper.py:217).
ValidTimeFilters == {"hour", "day", "week", "month", "year", "all"}

\* ------------------------------------------------------------------------
\* Bounds of the model
\* ------------------------------------------------------------------------
\* longest input of deduplicate_posts in SpecDedup
MaxPosts == 3
\* non-success responses (anything but 200 with valid JSON) the remote
\* service may give during one process
MaxFaults == 3
\* request_json calls the client of the request-level scenario makes
MaxClientCalls == 2
\* largest pages argument of a crawl
MaxPages == 2
\* most request_json calls one crawl can need:
\* len(keywords) * len(time_filters) * max(1, pages)
MaxWalkCalls == 2

\* Python's None.
None == "None"

\* Truthiness of a Python str-or-None value: None and "" are falsy.
Truthy(s) == s # None /\ s # ""

\* The strings the model uses, in Python's sort order (code-point order).
LexOrder == <<"bogus", "month", "pricing", "support", "year">>

\* sorted(S) for a set S of strings of LexOrder (scraper.py:200).
Sorted(S) == SelectSeq(LexOrder, LAMBDA x : x \in S)

\* set(xs) for a list xs.
ToSet(xs) == {xs[i] : i \in 1..Len(xs)}

\* ------------------------------------------------------------------------
\* normalize_post, merge_post_metadata, deduplicate_posts
\* ------------------------------------------------------------------------
\* A raw listing item is [id, title]; title stands for every field other
\* than the id (subreddit, title, selftext, score, ...), each copied
\* unchanged by normalize_post.
normalize_post(raw_post, search_keyword, time_filter) ==
    [post_id        |-> raw_post.id,
     title          |-> raw_post.title,
     search_keyword |-> <<search_keyword>>,
     time_filter    |-> <<time_filter>>]

\* Mutant: the incoming record's keywords replace the existing ones.
merge_post_metadata_overwrite(existing, incoming) ==
    [existing EXCEPT !.search_keyword = incoming.search_keyword,
                     !.time_filter = Sorted(ToSet(existing.time_filter)
                                            \cup ToSet(incoming.time_filter))]

\* Mutant: the incoming record replaces the existing one, provenance
\* merged.
merge_post_metadata_lastwins(existing, incoming) ==
    [incoming EXCEPT
        !.search_keyword = Sorted(ToSet(existing.search_keyword)
                                  \cup ToSet(incoming.search_keyword)),
        !.time_filter    = Sorted(ToSet(existing.time_filter)
                                  \cup ToSet(incoming.time_filter))]

\* Mutant: the time filters of the incoming record replace the existing
\* ones.
merge_post_metadata_latest_tf(existing, incoming) ==
    [existing EXCEPT
        !.search_keyword = Sorted(ToSet(existing.search_keyword)
                                  \cup ToSet(incoming.search_keyword)),
        !.time_filter    = incoming.time_filter]

\* The value merge_post_metadata returns (scraper.py:195-201); it is the
\* existing record itself, whose two fields are reassigned in place.
merge_post_metadata(existing, incoming) ==
    [existing EXCEPT
        !.search_keyword = Sorted(ToSet(existing.search_keyword)
                                  \cup ToSet(incoming.search_keyword)),
        !.time_filter    = Sorted(ToSet(existing.time_filter)
                                  \cup ToSet(incoming.time_filter))]

\* Index of post_id in the insertion-ordered dict by_id, 0 when absent.
IndexOfId(by_id, post_id) ==
    IF \E i \in 1..Len(by_id) : by_id[i].post_id = post_id
    THEN CHOOSE i \in 1..Len(by_id) : by_id[i].post_id = post_id
    ELSE 0

\* Mutant: records without a post_id are kept, under the id they have.
DedupStep_no_skip(by_id, post) ==
    IF IndexOfId(by_id, post.post_id) = 0 THEN Append(by_id, post)
    ELSE [by_id EXCEPT ![IndexOfId(by_id, post.post_id)] =
              merge_post_metadata(by_id[IndexOfId(by_id, post.post_id)], post)]

\* One iteration of the loop of deduplicate_posts (scraper.py:286-293);
\* by_id is the dict as the sequence of its values in insertion order.
DedupStep(by_id, post) ==
    IF ~Truthy(post.post_id) THEN by_id
    ELSE IF IndexOfId(by_id, post.post_id) = 0 THEN Append(by_id, post)
    ELSE [by_id EXCEPT ![IndexOfId(by_id, post.post_id)] =
              merge_post_metadata(by_id[IndexOfId(by_id, post.post_id)], post)]

RECURSIVE DedupFold(_, _)
DedupFold(by_id, posts) ==
    IF posts = <<>> THEN by_id
    ELSE DedupFold(DedupStep(by_id, Head(posts)), Tail(posts))

\* The list deduplicate_posts returns (scraper.py:282-301); the progress
\* entry it logs is appended by the actions that call it.
deduplicate_posts(posts) == DedupFold(<<>>, posts)

\* ------------------------------------------------------------------------
\* State
\* ------------------------------------------------------------------------
VARIABLES
    api,              \* the API function the process is in: "idle",
                      \* "request" (a direct request_json call), "scrape",
                      \* "comments", "dedup"
    api_state,        \* "running", "returned" or "raised" (an exception
                      \* left the API function)
    api_ret,          \* what the API function returned
    ncalls,           \* request_json calls made by the direct client
    faults,           \* non-success responses given so far
    now,              \* time.time()
    LAST_REQUEST_TS,  \* the module global _LAST_REQUEST_TS
    log,              \* the lines of scrape_log.json
    rj_pc,            \* request_json: "idle", "attempt", "returned"
    attempt,          \* request_json's loop variable
    rj_ret,           \* request_json's return value
    keywords,         \* scrape_subreddit_keywords: its arguments
    time_filters,
    pages,
    ki,               \* index of the outer loop (keyword)
    ti,               \* index of the inner loop (time_filter)
    all_posts,
    w_pc,             \* search_subreddit_keyword: "idle", "page" (top of
                      \* the loop body), "wait" (inside request_json)
    page,             \* its loop variable
    after,            \* its cursor
    collected,        \* its result list
    posts,            \* the argument of a direct deduplicate_posts call
    rj_hist,          \* history: the outcome of each attempt of this call
    rj_sleeps,        \* history: the backoff / rate-limit sleeps of this call
    rj_trace,         \* history: "pace", "get", "sleep" events of this call
    rj_log0,          \* history: Len(log) when this call started
    pace_prev,        \* history: when the last but one pacing call returned
    pace_last,        \* history: when the last pacing call returned
    nphys,            \* history: physical requests made by the process
    w_calls,          \* history: request_json calls of this walker run
    w_cursors,        \* history: the cursor each of them carried
    w_zero,           \* history: this walker run received a page with
                      \* zero children
    w_after_zero,     \* history: and called request_json after it
    w_end,            \* history: why the last walker run ended: "none",
                      \* "absent", "no_after", "max_pages"
    runs,             \* history: the (keyword, time_filter) of each walker run
    fetched,          \* history: the normalized items of every page a
                      \* walker run received, in order
    served,           \* history: the JSON value of the last 200 response
    c_calls,          \* history: request_json calls of fetch_post_comments
    run,              \* the orchestrator run whose request is being made
    own_ts,           \* history: for each run, the time its own last
                      \* pacing call returned (0: it has made none)
    interfered        \* history: a pacing call waited otherwise than the
                      \* run's own requests alone would have made it wait

\* The orchestrator runs of one process.
Runs == {"A", "B"}

procVars == <<api, api_state, api_ret, ncalls>>
instVars == <<run, own_ts, interfered>>
clockVars == <<now, LAST_REQUEST_TS, pace_prev, pace_last>>
rjVars == <<rj_pc, attempt, rj_ret, rj_hist, rj_sleeps, rj_trace, rj_log0,
            served>>
argVars == <<keywords, time_filters, pages, posts>>
orchVars == <<ki, ti, all_posts, runs, fetched>>
walkVars == <<w_pc, page, after, collected, w_calls, w_cursors, w_zero,
              w_after_zero, w_end>>
crawlVars == <<keywords, time_filters, pages, posts, ki, ti, all_posts, runs,
               fetched, w_pc, page, after, collected, w_calls, w_cursors,
               w_zero, w_after_zero, w_end>>
vars == <<api, api_state, api_ret, ncalls, faults, now, LAST_REQUEST_TS, log,
          rj_pc, attempt, rj_ret, keywords, time_filters, pages, ki, ti,
          all_posts, w_pc, page, after, collected, posts, rj_hist, rj_sleeps,
          rj_trace, rj_log0, pace_prev, pace_last, nphys, w_calls, w_cursors,
          w_zero, w_after_zero, w_end, runs, fetched, served, c_calls,
          run, own_ts, interfered>>

\* ------------------------------------------------------------------------
\* Event log (_append_scrape_log, _emit_progress)
\* ------------------------------------------------------------------------
\* One line of scrape_log.json: its event_type, the stage field of a
\* warning or error (the emitting function for a progress line) and its
\* reason, error or message.
Entry(event_type, stage, what) ==
    [event_type |-> event_type, stage |-> stage, what |-> what]

\* _emit_progress(message): a "progress" line.
Progress(stage, message) == Entry("progress", stage, message)

\* Mutant: the file is opened for writing, not for appending.
AppendLog_rewrite(l, entries) == entries

\* The file after the given lines are written to it, each by one
\* _append_scrape_log, which opens it in "a" mode (scraper.py:43-44).
AppendLog(l, entries) == l \o entries

\* ------------------------------------------------------------------------
\* Pacing controller (_enforce_min_delay)
\* ------------------------------------------------------------------------
\* Seconds one requests.get may take, and seconds time.sleep may oversleep.
\* Only the request-level scenario lets the clock drift; in a crawl every
\* request takes one second and every sleep is exact.
Latencies == IF api = "request" THEN {0, 1} ELSE {1}
Oversleeps == IF api = "request" THEN {0, 1} ELSE {0}

\* Mutant: the truthiness test of _LAST_REQUEST_TS is dropped and the
\* comparison is off by one.
PaceWait_short(t, last) ==
    IF t - last < MIN_REQUEST_DELAY_SECONDS - 1
    THEN (MIN_REQUEST_DELAY_SECONDS - 1) - (t - last) ELSE 0

\* Mutant: the truthiness test of _LAST_REQUEST_TS is dropped, so the
\* first call waits too.
PaceWait_first(t, last) ==
    IF t - last < MIN_REQUEST_DELAY_SECONDS
    THEN MIN_REQUEST_DELAY_SECONDS - (t - last) ELSE 0

\* wait_for of _enforce_min_delay called at time t (scraper.py:55-58);
\* 0 when it does not sleep.
PaceWait(t, last) ==
    IF last # 0 /\ t - last < MIN_REQUEST_DELAY_SECONDS
    THEN MIN_REQUEST_DELAY_SECONDS - (t - last) ELSE 0

\* When _enforce_min_delay called at time t returns, if time.sleep
\* oversleeps by over (scraper.py:60-61).
PaceReturn(t, last, over) ==
    IF PaceWait(t, last) > 0 THEN t + PaceWait(t, last) + over ELSE t

\* The progress line of a pacing call that sleeps (scraper.py:59).
PaceLog(t, last) ==
    IF PaceWait(t, last) > 0
    THEN <<Progress("_enforce_min_delay", "Waiting to respect minimum request delay")>>
    ELSE <<>>

\* ------------------------------------------------------------------------
\* Request executor (request_json)
\* ------------------------------------------------------------------------
NonePayload == [kind |-> None, children |-> <<>>, after |-> None]

\* A falsy JSON value ({}, [], null, 0, ""): valid JSON, "not payload".
EmptyPayload == [kind |-> "empty", children |-> <<>>, after |-> None]

\* What a client calling request_json directly may be answered.
ClientPayloads ==
    {EmptyPayload, [kind |-> "object", children |-> <<>>, after |-> None]}

\* A raw listing item (the "data" of one child).
RawItem(id, title) == [id |-> id, title |-> title]

Listing(children, next) ==
    [kind |-> "listing", children |-> children, after |-> next]

\* The listing objects the search endpoint may answer with: pages with
\* and without children, with and without a next cursor (data.after a
\* string, the empty string or null), with items that lack an id, and
\* with posts that other pages hold too.
Listings ==
    { Listing(<<>>, None),
      Listing(<<>>, "c1"),
      Listing(<<RawItem("p1", "t1")>>, "c1"),
      Listing(<<RawItem(None, "t1"), RawItem("p2", "t1")>>, "c2"),
      Listing(<<RawItem("p1", "t1")>>, ""),
      Listing(<<RawItem("p2", "t2"), RawItem("p1", "t2")>>, None) }

\* The JSON values the search endpoint may answer with: a falsy value or
\* a listing object.
SearchPayloads == {EmptyPayload} \cup Listings

\* A comment of the comment endpoint: its id and its replies, which are a
\* listing object (isdict) or the empty string Reddit sends for "none".
Comment(id, isdict, replies) ==
    [id |-> id, isdict |-> isdict, replies |-> replies]

NoReplies == <<>>

\* The comment listings (payload[1].data.children) the comment endpoint
\* may answer with.
CommentListings ==
    { <<>>,
      <<Comment("c1", FALSE, NoReplies)>>,
      <<Comment("c1", TRUE,
                <<Comment("r1", TRUE, <<Comment("d1", FALSE, NoReplies)>>),
                  Comment(None, FALSE, NoReplies),
                  Comment("r2", FALSE, NoReplies)>>),
        Comment("c2", TRUE, NoReplies)>>,
      <<Comment(None, TRUE, <<Comment("r3", FALSE, NoReplies)>>),
        Comment("c3", TRUE, <<Comment("r4", FALSE, NoReplies)>>)>> }

\* The JSON values the comment endpoint may answer with: a falsy value, an
\* object (not a list), a list of one element, or the two-element list
\* [post_listing, comment_listing].
CommentPayloads ==
    { EmptyPayload,
      [kind |-> "object", children |-> <<>>, after |-> None],
      [kind |-> "list1", children |-> <<>>, after |-> None] }
    \cup {[kind |-> "list2", children |-> c, after |-> None] : c \in CommentListings}

\* What requests.get can be answered with, by the endpoint being called.
Payloads ==
    CASE api = "scrape" -> SearchPayloads
      [] api = "comments" -> CommentPayloads
      [] OTHER -> ClientPayloads

\* Mutant: only None counts as no payload.
Falsy_none_only(payload) == payload.kind = None

\* "not payload" (scraper.py:245, 318): None and the empty JSON values.
Falsy(payload) == payload.kind \in {None, "empty"}

\* 2 ** n
RECURSIVE Pow2(_)
Pow2(n) == IF n = 0 THEN 1 ELSE 2 * Pow2(n - 1)

\* Mutant: the exponent is attempt, not attempt - 1.
Backoff_late(k) == Pow2(k)

\* wait_for = 2 ** (attempt - 1) (scraper.py:103, 168)
Backoff(k) == Pow2(k - 1)

\* What one iteration of request_json's loop does after requests.get:
\* the lines it logs, whether it returns (and what) or raises, and the
\* seconds it sleeps before the next iteration (0: no sleep).
Continue(logs, sleep) ==
    [logs |-> logs, ret |-> FALSE, val |-> NonePayload, raise |-> FALSE,
     sleep |-> sleep]

Return(logs, val) ==
    [logs |-> logs, ret |-> TRUE, val |-> val, raise |-> FALSE, sleep |-> 0]

Raise(logs) ==
    [logs |-> logs, ret |-> FALSE, val |-> NonePayload, raise |-> TRUE,
     sleep |-> 0]

\* Mutant: a network failure is retried whatever the attempt number.
OnNetworkError_retry_on(k) ==
    Continue(<<Entry("error", "request_json", "exception"),
               Progress("request_json",
                        "Transient request error. Retrying with backoff.")>>,
             Backoff(k))

\* requests.get raised requests.RequestException (scraper.py:92-111).
OnNetworkError(k) ==
    IF k = MAX_RETRIES
    THEN Return(<<Entry("error", "request_json", "exception")>>, NonePayload)
    ELSE Continue(<<Entry("error", "request_json", "exception"),
                    Progress("request_json",
                             "Transient request error. Retrying with backoff.")>>,
                  Backoff(k))

\* Status 200, response.json() parses (scraper.py:114-116).
OnOk(payload) == Return(<<>>, payload)

\* Mutant: the ValueError of response.json() is not caught.
OnBadJson_uncaught == Raise(<<>>)

\* Status 200, response.json() raises ValueError (scraper.py:117-127).
OnBadJson ==
    Return(<<Entry("error", "request_json", "Invalid JSON payload")>>,
           NonePayload)

\* Status 403 or 404 (scraper.py:129-138).
OnForbiddenNotFound ==
    Return(<<Entry("warning", "request_json",
                   "Graceful handling for forbidden/not-found")>>,
           NonePayload)

\* Mutant: a 429 backs off like any other failure.
OnRateLimited_backoff(k) ==
    IF k = MAX_RETRIES
    THEN Return(<<Entry("warning", "request_json", "Rate limited by Reddit")>>,
                NonePayload)
    ELSE Continue(<<Entry("warning", "request_json", "Rate limited by Reddit")>>,
                  Backoff(k))

\* Status 429 (scraper.py:140-154).
OnRateLimited(k) ==
    IF k = MAX_RETRIES
    THEN Return(<<Entry("warning", "request_json", "Rate limited by Reddit")>>,
                NonePayload)
    ELSE Continue(<<Entry("warning", "request_json", "Rate limited by Reddit")>>,
                  RATE_LIMIT_WAIT_SECONDS)

\* Mutant: the backoff is slept before the test of the last attempt.
OnOtherStatus_sleep_last(k) ==
    IF k = MAX_RETRIES
    THEN [Return(<<Entry("error", "request_json", "response_text")>>,
                 NonePayload) EXCEPT !.sleep = Backoff(k)]
    ELSE Continue(<<Entry("error", "request_json", "response_text")>>,
                  Backoff(k))

\* Any other status (scraper.py:156-169).
OnOtherStatus(k) ==
    IF k = MAX_RETRIES
    THEN Return(<<Entry("error", "request_json", "response_text")>>,
                NonePayload)
    ELSE Continue(<<Entry("error", "request_json", "response_text")>>,
                  Backoff(k))

\* Mutant: only 403 is handled gracefully; 404 is any other status.
Classify_404retry(outcome, k, payload) ==
    CASE outcome = "neterr" -> OnNetworkError(k)
      [] outcome = "200" -> OnOk(payload)
      [] outcome = "badjson" -> OnBadJson
      [] outcome = "403" -> OnForbiddenNotFound
      [] outcome = "429" -> OnRateLimited(k)
      [] OTHER -> OnOtherStatus(k)

\* Mutant: a 200 whose body is not JSON is retried like any other status.
Classify_badjson_retry(outcome, k, payload) ==
    CASE outcome = "neterr" -> OnNetworkError(k)
      [] outcome = "200" -> OnOk(payload)
      [] outcome \in {"403", "404"} -> OnForbiddenNotFound
      [] outcome = "429" -> OnRateLimited(k)
      [] OTHER -> OnOtherStatus(k)

\* The branch one iteration takes (scraper.py:85-169).  outcome is
\* "neterr" (requests.RequestException), "200" (status 200, valid JSON),
\* "badjson" (status 200, invalid JSON), "403", "404", "429" or "500"
\* (any other status).
Classify(outcome, k, payload) ==
    CASE outcome = "neterr" -> OnNetworkError(k)
      [] outcome = "200" -> OnOk(payload)
      [] outcome = "badjson" -> OnBadJson
      [] outcome \in {"403", "404"} -> OnForbiddenNotFound
      [] outcome = "429" -> OnRateLimited(k)
      [] OTHER -> OnOtherStatus(k)

\* Mutant: only the first iteration calls _enforce_min_delay.
Attempt_pace_once(outcome, payload) ==
    /\ rj_pc = "attempt"
    /\ outcome # "200" => faults < MaxFaults
    /\ \E lat \in Latencies, over \in Oversleeps :
         LET c  == Classify(outcome, attempt, payload)
             t1 == IF attempt = 1 THEN PaceReturn(now, LAST_REQUEST_TS, over)
                   ELSE now
             t2 == t1 + lat
         IN  /\ LAST_REQUEST_TS' = IF attempt = 1 THEN t1 ELSE LAST_REQUEST_TS
             /\ pace_prev' = IF attempt = 1 THEN pace_last ELSE pace_prev
             /\ pace_last' = IF attempt = 1 THEN t1 ELSE pace_last
             /\ now' = IF c.sleep > 0 THEN t2 + c.sleep + over ELSE t2
             /\ log' = AppendLog(log, (IF attempt = 1
                                       THEN PaceLog(now, LAST_REQUEST_TS)
                                       ELSE <<>>) \o c.logs)
             /\ rj_hist' = Append(rj_hist, outcome)
             /\ rj_sleeps' = IF c.sleep > 0 THEN Append(rj_sleeps, c.sleep)
                             ELSE rj_sleeps
             /\ rj_trace' = rj_trace
                              \o (IF attempt = 1 THEN <<"pace">> ELSE <<>>)
                              \o <<"get">>
                              \o (IF c.sleep > 0 THEN <<"sleep">> ELSE <<>>)
             /\ nphys' = nphys + 1
             /\ faults' = IF outcome = "200" THEN faults ELSE faults + 1
             /\ rj_pc' = IF c.raise THEN "raised"
                         ELSE IF c.ret THEN "returned" ELSE "attempt"
             /\ rj_ret' = IF c.ret THEN c.val ELSE rj_ret
             /\ attempt' = IF c.ret \/ c.raise THEN attempt ELSE attempt + 1
             /\ rj_log0' = rj_log0
             /\ served' = IF outcome = "200" THEN payload ELSE served
             /\ own_ts' = IF attempt = 1 THEN [own_ts EXCEPT ![run] = t1]
                           ELSE own_ts
             /\ interfered' = interfered
             /\ run' = run

\* One iteration of the loop of request_json (scraper.py:83-169):
\* _enforce_min_delay, requests.get, and the branch its outcome takes,
\* with the lines logged and the sleep before the next iteration.
Attempt(outcome, payload) ==
    /\ rj_pc = "attempt"
    /\ outcome # "200" => faults < MaxFaults
    /\ \E lat \in Latencies, over \in Oversleeps :
         LET c  == Classify(outcome, attempt, payload)
             t1 == PaceReturn(now, LAST_REQUEST_TS, over)
             t2 == t1 + lat
         IN  /\ LAST_REQUEST_TS' = t1
             /\ pace_prev' = pace_last
             /\ pace_last' = t1
             /\ now' = IF c.sleep > 0 THEN t2 + c.sleep + over ELSE t2
             /\ log' = AppendLog(log, PaceLog(now, LAST_REQUEST_TS) \o c.logs)
             /\ rj_hist' = Append(rj_hist, outcome)
             /\ rj_sleeps' = IF c.sleep > 0 THEN Append(rj_sleeps, c.sleep)
                             ELSE rj_sleeps
             /\ rj_trace' = rj_trace \o <<"pace", "get">>
                              \o (IF c.sleep > 0 THEN <<"sleep">> ELSE <<>>)
             /\ nphys' = nphys + 1
             /\ faults' = IF outcome = "200" THEN faults ELSE faults + 1
             /\ rj_pc' = IF c.raise THEN "raised"
                         ELSE IF c.ret THEN "returned" ELSE "attempt"
             /\ rj_ret' = IF c.ret THEN c.val ELSE rj_ret
             /\ attempt' = IF c.ret \/ c.raise THEN attempt ELSE attempt + 1
             /\ rj_log0' = rj_log0
             /\ served' = IF outcome = "200" THEN payload ELSE served
             /\ own_ts' = [own_ts EXCEPT ![run] = t1]
             /\ interfered' =
                   (interfered \/ PaceWait(now, LAST_REQUEST_TS)
                                     # PaceWait(now, own_ts[run]))
             /\ run' = run

\* request_json is entered: the loop starts at attempt 1.
EnterRequestJson ==
    /\ rj_pc' = "attempt"
    /\ attempt' = 1
    /\ rj_ret' = NonePayload
    /\ rj_hist' = <<>>
    /\ rj_sleeps' = <<>>
    /\ rj_trace' = <<>>
    /\ served' = served

AttemptNetworkError ==
    /\ Attempt("neterr", NonePayload)
    /\ UNCHANGED <<procVars, crawlVars, c_calls>>

AttemptOk ==
    /\ \E payload \in Payloads : Attempt("200", payload)
    /\ UNCHANGED <<procVars, crawlVars, c_calls>>

AttemptBadJson ==
    /\ Attempt("badjson", NonePayload)
    /\ UNCHANGED <<procVars, crawlVars, c_calls>>

AttemptForbiddenNotFound ==
    /\ \E status \in {"403", "404"} : Attempt(status, NonePayload)
    /\ UNCHANGED <<procVars, crawlVars, c_calls>>

AttemptRateLimited ==
    /\ Attempt("429", NonePayload)
    /\ UNCHANGED <<procVars, crawlVars, c_calls>>

AttemptOtherStatus ==
    /\ Attempt("500", NonePayload)
    /\ UNCHANGED <<procVars, crawlVars, c_calls>>

\* ------------------------------------------------------------------------
\* A client calling request_json directly
\* ------------------------------------------------------------------------
ClientCall ==
    /\ api = "request"
    /\ api_state = "running"
    /\ rj_pc = "idle"
    /\ ncalls < MaxClientCalls
    /\ ncalls' = ncalls + 1
    /\ EnterRequestJson
    /\ rj_log0' = Len(log)
    /\ UNCHANGED <<api, api_state, api_ret, faults, now, LAST_REQUEST_TS, log,
                   pace_prev, pace_last, nphys, crawlVars, c_calls, instVars>>

ClientReturn ==
    /\ api = "request"
    /\ rj_pc = "returned"
    /\ rj_pc' = "idle"
    /\ UNCHANGED <<procVars, faults, now, LAST_REQUEST_TS, log, attempt,
                   rj_ret, rj_hist, rj_sleeps, rj_trace, rj_log0, served,
                   pace_prev, pace_last, nphys, crawlVars, c_calls, instVars>>

\* ------------------------------------------------------------------------
\* Two orchestrator runs in one process
\* ------------------------------------------------------------------------
\* Run r calls request_json; the pacing controller it reaches is the
\* module's (scraper.py:29, 53-61), whichever run is calling.
RunCall(r) ==
    /\ api = "runs"
    /\ api_state = "running"
    /\ rj_pc = "idle"
    /\ ncalls < MaxClientCalls
    /\ ncalls' = ncalls + 1
    /\ run' = r
    /\ EnterRequestJson
    /\ rj_log0' = Len(log)
    /\ UNCHANGED <<api, api_state, api_ret, faults, now, LAST_REQUEST_TS, log,
                   pace_prev, pace_last, nphys, crawlVars, c_calls, own_ts,
                   interfered>>

RunsCall == \E r \in Runs : RunCall(r)

RunsReturn ==
    /\ api = "runs"
    /\ rj_pc = "returned"
    /\ rj_pc' = "idle"
    /\ UNCHANGED <<procVars, faults, now, LAST_REQUEST_TS, log, attempt,
                   rj_ret, rj_hist, rj_sleeps, rj_trace, rj_log0, served,
                   pace_prev, pace_last, nphys, crawlVars, c_calls, instVars>>

\* ------------------------------------------------------------------------
\* Pagination walker (search_subreddit_keyword)
\* ------------------------------------------------------------------------
\* Mutant: the loop runs one page too many.
LastPage_extra(n) == IF n > 1 THEN n + 1 ELSE 2

\* The last value of range(1, max(1, pages) + 1) (scraper.py:232).
LastPage(n) == IF n > 1 THEN n ELSE 1

\* The (keyword, time_filter) the orchestrator's loops are at.
CurKeyword == keywords[ki]
CurTimeFilter == time_filters[ti]

\* Mutant: the loops stop at the first pair whose walk returns nothing.
HasPair_until_empty ==
    /\ ki <= Len(keywords)
    /\ Len(time_filters) > 0
    /\ runs # <<>> => collected # <<>>

\* The orchestrator's loops have a next pair (scraper.py:382-383).
HasPair == ki <= Len(keywords) /\ Len(time_filters) > 0

\* scrape_subreddit_keywords calls search_subreddit_keyword for the next
\* pair, whose time_filter fails the validation: ValueError leaves both
\* functions (scraper.py:217-218, 384).
SearchRaise ==
    /\ api = "scrape"
    /\ api_state = "running"
    /\ w_pc = "idle"
    /\ HasPair
    /\ CurTimeFilter \notin ValidTimeFilters
    /\ api_state' = "raised"
    /\ UNCHANGED <<api, api_ret, ncalls, faults, clockVars, log, rjVars,
                   nphys, crawlVars, c_calls, instVars>>

\* scrape_subreddit_keywords calls search_subreddit_keyword for the next
\* pair, which passes the validation and reaches its loop
\* (scraper.py:217-230, 384).
SearchStart ==
    /\ api = "scrape"
    /\ api_state = "running"
    /\ w_pc = "idle"
    /\ HasPair
    /\ CurTimeFilter \in ValidTimeFilters
    /\ log' = AppendLog(log, <<Progress("search_subreddit_keyword",
                                         "Starting subreddit keyword search")>>)
    /\ w_pc' = "page"
    /\ page' = 1
    /\ after' = None
    /\ collected' = <<>>
    /\ w_calls' = 0
    /\ w_cursors' = <<>>
    /\ w_zero' = FALSE
    /\ w_after_zero' = FALSE
    /\ w_end' = "none"
    /\ runs' = Append(runs, <<CurKeyword, CurTimeFilter>>)
    /\ UNCHANGED <<procVars, faults, clockVars, rjVars, nphys, argVars, ki,
                   ti, all_posts, fetched, c_calls, instVars>>

\* Mutant: params never carry a cursor.
CursorParam_none(a) == None

\* params["after"], set only when after is truthy (scraper.py:241-242);
\* None: params has no "after" key.
CursorParam(a) == IF Truthy(a) THEN a ELSE None

\* The top of the loop body: params are built, with the cursor when it is
\* truthy, and request_json is called (scraper.py:233-244).
WalkerRequest ==
    /\ api = "scrape"
    /\ w_pc = "page"
    /\ w_pc' = "wait"
    /\ EnterRequestJson
    /\ rj_log0' = Len(log)
    /\ w_calls' = w_calls + 1
    /\ w_cursors' = Append(w_cursors, CursorParam(after))
    /\ w_after_zero' = (w_after_zero \/ w_zero)
    /\ UNCHANGED <<procVars, faults, clockVars, log, nphys, argVars,
                   orchVars, page, after, collected, w_zero, w_end, c_calls,
                   instVars>>

\* The posts one page adds to collected (scraper.py:259-263).
Normalized(children, keyword, time_filter) ==
    [i \in 1..Len(children) |->
        normalize_post(children[i], keyword, time_filter)]

HasId(post) == Truthy(post.post_id)

\* Mutant: items without an id are collected too.
PagePosts_unfiltered(children, keyword, time_filter) ==
    Normalized(children, keyword, time_filter)

PagePosts(children, keyword, time_filter) ==
    SelectSeq(Normalized(children, keyword, time_filter), HasId)

\* Mutant: the walk ends on an absent page without a word.
AbsentPageLog_silent == <<>>

\* The warning of a walk that ends on an absent page (scraper.py:246-254).
AbsentPageLog ==
    <<Entry("warning", "search_subreddit_keyword", "No payload returned")>>

\* Mutant: a walk that ends on an absent page returns nothing.
WalkResultOnAbsent_drop(coll) == <<>>

\* What the walk returns when request_json gave nothing: collected, as it
\* is (scraper.py:255, 279).
WalkResultOnAbsent(coll) == coll

\* search_subreddit_keyword returns coll to scrape_subreddit_keywords,
\* which extends all_posts and moves its loops on (scraper.py:279,
\* 382-391).
WalkerReturns(coll, why) ==
    /\ w_pc' = "idle"
    /\ collected' = coll
    /\ w_end' = why
    /\ all_posts' = all_posts \o coll
    /\ page' = page
    /\ IF ti < Len(time_filters)
       THEN ti' = ti + 1 /\ ki' = ki
       ELSE ti' = 1 /\ ki' = ki + 1

\* The rest of the loop body, from the return of request_json
\* (scraper.py:245-277).
WalkerReceive ==
    /\ api = "scrape"
    /\ w_pc = "wait"
    /\ rj_pc = "returned"
    /\ rj_pc' = "idle"
    /\ IF Falsy(rj_ret)
       THEN /\ log' = AppendLog(log, AbsentPageLog)
            /\ WalkerReturns(WalkResultOnAbsent(collected), "absent")
            /\ UNCHANGED <<after, w_zero, fetched>>
       ELSE LET coll == collected
                          \o PagePosts(rj_ret.children, CurKeyword, CurTimeFilter)
            IN  /\ log' = AppendLog(log,
                                 <<Progress("search_subreddit_keyword",
                                            "Fetched search page")>>)
                /\ after' = rj_ret.after
                /\ w_zero' = (w_zero \/ rj_ret.children = <<>>)
                /\ fetched' = fetched \o Normalized(rj_ret.children,
                                                    CurKeyword, CurTimeFilter)
                /\ IF ~Truthy(rj_ret.after)
                   THEN WalkerReturns(coll, "no_after")
                   ELSE IF page < LastPage(pages)
                   THEN /\ page' = page + 1
                        /\ collected' = coll
                        /\ w_pc' = "page"
                        /\ UNCHANGED <<w_end, all_posts, ki, ti>>
                   ELSE WalkerReturns(coll, "max_pages")
    /\ UNCHANGED <<procVars, faults, clockVars, attempt, rj_ret, rj_hist,
                   rj_sleeps, rj_trace, rj_log0, served, nphys, argVars,
                   runs, w_calls, w_cursors, w_after_zero, c_calls, instVars>>

\* ------------------------------------------------------------------------
\* Crawl orchestrator (scrape_subreddit_keywords)
\* ------------------------------------------------------------------------
\* The loops are over: deduplicate_posts(all_posts) is returned, after its
\* progress line (scraper.py:393, 295-301).
ScrapeFinish ==
    /\ api = "scrape"
    /\ api_state = "running"
    /\ w_pc = "idle"
    /\ ~HasPair
    /\ api_ret' = deduplicate_posts(all_posts)
    /\ log' = AppendLog(log, <<Progress("deduplicate_posts",
                                         "Deduplicated posts")>>)
    /\ api_state' = "returned"
    /\ UNCHANGED <<api, ncalls, faults, clockVars, rjVars, nphys, crawlVars, c_calls,
                   instVars>>

\* ------------------------------------------------------------------------
\* Comment extractor (fetch_post_comments)
\* ------------------------------------------------------------------------
CommentRecord(id, depth) == [comment_id |-> id, depth |-> depth]

\* Mutant: the replies of a reply are recorded too, at depth 2.
RECURSIVE ExtractReplies_deep(_)
ExtractReplies_deep(reply_children) ==
    IF reply_children = <<>> THEN <<>>
    ELSE (IF Truthy(Head(reply_children).id)
          THEN <<CommentRecord(Head(reply_children).id, 1)>>
               \o [k \in 1..Len(Head(reply_children).replies) |->
                      CommentRecord(Head(reply_children).replies[k].id, 2)]
          ELSE <<>>)
         \o ExtractReplies_deep(Tail(reply_children))

\* The records of the replies of one top-level comment: those with an id,
\* at depth 1 (scraper.py:349-362).
RECURSIVE ExtractReplies(_)
ExtractReplies(reply_children) ==
    IF reply_children = <<>> THEN <<>>
    ELSE (IF Truthy(Head(reply_children).id)
          THEN <<CommentRecord(Head(reply_children).id, 1)>>
          ELSE <<>>)
         \o ExtractReplies(Tail(reply_children))

\* Mutant: the replies of a comment without an id are recorded.
RECURSIVE ExtractComments_orphans(_)
ExtractComments_orphans(comments_listing) ==
    IF comments_listing = <<>> THEN <<>>
    ELSE LET comment == Head(comments_listing)
         IN  (IF ~Truthy(comment.id) THEN <<>>
              ELSE <<CommentRecord(comment.id, 0)>>)
             \o (IF comment.isdict THEN ExtractReplies(comment.replies)
                 ELSE <<>>)
             \o ExtractComments_orphans(Tail(comments_listing))

\* The loop over comments_listing (scraper.py:331-362).
RECURSIVE ExtractComments(_)
ExtractComments(comments_listing) ==
    IF comments_listing = <<>> THEN <<>>
    ELSE LET comment == Head(comments_listing)
         IN  (IF ~Truthy(comment.id) THEN <<>>
              ELSE <<CommentRecord(comment.id, 0)>>
                   \o (IF comment.isdict THEN ExtractReplies(comment.replies)
                       ELSE <<>>))
             \o ExtractComments(Tail(comments_listing))

\* Mutant: only a falsy payload is turned away.
BadCommentsPayload_falsy(payload) == Falsy(payload)

\* not payload or not isinstance(payload, list) or len(payload) < 2
\* (scraper.py:318)
BadCommentsPayload(payload) == payload.kind # "list2"

\* fetch_post_comments calls request_json (scraper.py:310-317).
CommentsRequest ==
    /\ api = "comments"
    /\ api_state = "running"
    /\ rj_pc = "idle"
    /\ EnterRequestJson
    /\ rj_log0' = Len(log)
    /\ c_calls' = c_calls + 1
    /\ UNCHANGED <<procVars, faults, clockVars, log, nphys, crawlVars, instVars>>

\* The rest of fetch_post_comments (scraper.py:318-370).
CommentsReceive ==
    /\ api = "comments"
    /\ rj_pc = "returned"
    /\ rj_pc' = "idle"
    /\ api_state' = "returned"
    /\ IF BadCommentsPayload(rj_ret)
       THEN /\ log' = AppendLog(log, <<Entry("warning", "fetch_post_comments",
                                              "No comments payload returned")>>)
            /\ api_ret' = <<>>
       ELSE /\ log' = AppendLog(log, <<Progress("fetch_post_comments",
                                                 "Fetched post comments")>>)
            /\ api_ret' = ExtractComments(rj_ret.children)
    /\ UNCHANGED <<api, ncalls, faults, clockVars, attempt, rj_ret, rj_hist,
                   rj_sleeps, rj_trace, rj_log0, served, nphys, crawlVars, c_calls,
                   instVars>>

\* ------------------------------------------------------------------------
\* A direct call of deduplicate_posts on freshly normalized items
\* ------------------------------------------------------------------------
Deduplicate ==
    /\ api = "dedup"
    /\ api_state = "running"
    /\ api_ret' = deduplicate_posts(posts)
    /\ log' = AppendLog(log, <<Progress("deduplicate_posts",
                                         "Deduplicated posts")>>)
    /\ api_state' = "returned"
    /\ UNCHANGED <<api, ncalls, faults, clockVars, rjVars, nphys, crawlVars, c_calls,
                   instVars>>

\* ------------------------------------------------------------------------
\* Specifications
\* ------------------------------------------------------------------------
\* The state of a process that has imported the module and entered an API
\* function: _LAST_REQUEST_TS is 0.0 (scraper.py:29), the clock reads a
\* positive time, the log is empty.
InitFields ==
    /\ api_state = "running"
    /\ api_ret = <<>>
    /\ ncalls = 0
    /\ now = 1
    /\ LAST_REQUEST_TS = 0
    /\ log = <<>>
    /\ rj_pc = "idle"
    /\ attempt = 1
    /\ rj_ret = NonePayload
    /\ rj_hist = <<>>
    /\ rj_sleeps = <<>>
    /\ rj_trace = <<>>
    /\ rj_log0 = 0
    /\ served = NonePayload
    /\ pace_prev = -1
    /\ pace_last = -1
    /\ nphys = 0
    /\ ki = 1
    /\ ti = 1
    /\ all_posts = <<>>
    /\ w_pc = "idle"
    /\ page = 1
    /\ after = None
    /\ collected = <<>>
    /\ w_calls = 0
    /\ w_cursors = <<>>
    /\ w_zero = FALSE
    /\ w_after_zero = FALSE
    /\ w_end = "none"
    /\ runs = <<>>
    /\ fetched = <<>>
    /\ c_calls = 0
    /\ run = "A"
    /\ own_ts = [r \in Runs |-> 0]
    /\ interfered = FALSE

\* The remote service has given no non-success response yet.
InitProcess == InitFields /\ faults = 0

NoArgs ==
    /\ keywords = <<>>
    /\ time_filters = <<>>
    /\ pages = 1
    /\ posts = <<>>

RequestStep ==
    \/ AttemptNetworkError
    \/ AttemptOk
    \/ AttemptBadJson
    \/ AttemptForbiddenNotFound
    \/ AttemptRateLimited
    \/ AttemptOtherStatus

\* The arguments scrape_subreddit_keywords is called with.
KeywordLists == {<<>>, <<"pricing">>, <<"pricing", "support">>}
TimeFilterLists ==
    {<<>>, <<"month">>, <<"bogus">>, <<"year", "month">>, <<"month", "bogus">>,
     <<"bogus", "month">>}
PagesArgs == (-1)..MaxPages

\* A process that runs one crawl (scrape_subreddit_keywords) or fetches
\* the comments of one post (fetch_post_comments).
Init ==
    /\ InitProcess
    /\ \/ /\ api = "scrape"
          /\ keywords \in KeywordLists
          /\ time_filters \in TimeFilterLists
          /\ pages \in PagesArgs
          /\ Len(keywords) * Len(time_filters) * LastPage(pages) <= MaxWalkCalls
          /\ posts = <<>>
       \/ /\ api = "comments"
          /\ NoArgs

Next ==
    \/ SearchRaise
    \/ SearchStart
    \/ WalkerRequest
    \/ RequestStep
    \/ WalkerReceive
    \/ ScrapeFinish
    \/ CommentsRequest
    \/ CommentsReceive

Spec == Init /\ [][Next]_vars

\* A process whose client calls request_json directly, with a drifting
\* clock.
InitReq ==
    /\ InitProcess
    /\ api = "request"
    /\ NoArgs

NextReq == ClientCall \/ RequestStep \/ ClientReturn

SpecReq == InitReq /\ [][NextReq]_vars

\* The inputs of the normalizer in SpecDedup: raw items with a missing, an
\* empty or a real id, under the query that found them.
DedupIds == {None, "", "p1", "p2"}
DedupQueries ==
    { <<"t1", "pricing", "month">>, <<"t2", "support", "month">>,
      <<"t1", "support", "year">> }
DedupInputs ==
    {normalize_post(RawItem(id, q[1]), q[2], q[3]) :
        id \in DedupIds, q \in DedupQueries}

RECURSIVE SeqsUpTo(_, _)
SeqsUpTo(S, n) ==
    IF n = 0 THEN {<<>>}
    ELSE SeqsUpTo(S, n - 1)
         \cup {Append(xs, x) : xs \in {ys \in SeqsUpTo(S, n - 1) : Len(ys) = n - 1},
                               x \in S}

\* A process that normalizes a sequence of raw items and passes them to
\* deduplicate_posts.
InitDedup ==
    /\ InitProcess
    /\ api = "dedup"
    /\ keywords = <<>>
    /\ time_filters = <<>>
    /\ pages = 1
    /\ posts \in SeqsUpTo(DedupInputs, MaxPosts)

NextDedup == Deduplicate

SpecDedup == InitDedup /\ [][NextDedup]_vars

\* A process that runs one crawl over two keywords and two time filters,
\* one page each, against a service that gives at most one non-success
\* response.
InitCross ==
    /\ InitFields
    /\ faults = MaxFaults - 1
    /\ api = "scrape"
    /\ keywords = <<"pricing", "support">>
    /\ time_filters = <<"year", "month">>
    /\ pages = 1
    /\ posts = <<>>

NextCross ==
    \/ SearchStart
    \/ WalkerRequest
    \/ RequestStep
    \/ WalkerReceive
    \/ ScrapeFinish

SpecCross == InitCross /\ [][NextCross]_vars

\* A process in which two orchestrator runs, A and B, make their
\* request_json calls one after the other, in any order.
InitRuns ==
    /\ InitProcess
    /\ api = "runs"
    /\ NoArgs

NextRuns == RunsCall \/ RequestStep \/ RunsReturn

SpecRuns == InitRuns /\ [][NextRuns]_vars

\* ------------------------------------------------------------------------
\* Properties
\* ------------------------------------------------------------------------
\* Lines of the given event types logged after the first n lines.
LogCount(n, types) ==
    Cardinality({i \in (n + 1)..Len(log) : log[i].event_type \in types})

\* The same, of one stage only.
StageLogCount(n, types, stage) ==
    Cardinality({i \in (n + 1)..Len(log) :
                    log[i].event_type \in types /\ log[i].stage = stage})

\* The union of the given provenance field over the records of xs with
\* the given id.
ProvenanceOf(xs, id, field) ==
    UNION {ToSet(xs[i][field]) : i \in {j \in 1..Len(xs) : xs[j].post_id = id}}

\* ys holds one record for each id of xs that is not missing or empty, no
\* two records of one id, and each record's provenance sets are the
\* unions over the records of xs with its id.
DedupedFrom(ys, xs) ==
    /\ \A i, j \in 1..Len(ys) : ys[i].post_id = ys[j].post_id => i = j
    /\ \A i \in 1..Len(ys) :
          /\ \E j \in 1..Len(xs) : xs[j].post_id = ys[i].post_id
          /\ ToSet(ys[i].search_keyword)
                = ProvenanceOf(xs, ys[i].post_id, "search_keyword")
          /\ ToSet(ys[i].time_filter)
                = ProvenanceOf(xs, ys[i].post_id, "time_filter")

\* C1: raw items normalized and passed to deduplicate_posts come back with
\* at most one record per post_id, whose search_keyword and time_filter
\* are the unions of those of all input occurrences of the id.
C1_DedupUnion ==
    (api = "dedup" /\ api_state = "returned") => DedupedFrom(api_ret, posts)

\* One id was found under "pricing" and under "support": one record holds
\* both.
C1_Witness ==
    /\ api = "dedup"
    /\ api_state = "returned"
    /\ Len(posts) >= 2
    /\ Len(api_ret) = 1
    /\ api_ret[1].search_keyword = <<"pricing", "support">>

\* C2 as stated: one walker run makes at most pages calls of request_json,
\* for every value of pages, 0 and negative values included (for which it
\* makes none).
C2_AtMostPagesCalls ==
    api = "scrape" => w_calls <= (IF pages > 0 THEN pages ELSE 0)

\* C2 amended: one walker run makes at most max(1, pages) calls of
\* request_json, whatever cursors the pages report.
C2_AtMostMaxOnePagesCalls ==
    api = "scrape" => w_calls <= (IF pages >= 1 THEN pages ELSE 1)

\* A walk used up its pages although the last page reported a cursor.
C2_Witness ==
    /\ api = "scrape"
    /\ pages > 1
    /\ w_end = "max_pages"
    /\ w_calls = pages
    /\ Truthy(after)

\* C3: after a page with zero children the walker calls request_json no
\* more in that walk.
C3_StopsAtEmptyPage == api = "scrape" => ~w_after_zero

\* Some attempt of this call of request_json had one of the outcomes.
Saw(outcomes) == \E i \in 1..Len(rj_hist) : rj_hist[i] \in outcomes

\* Every one of the MAX_RETRIES attempts had the outcome.
Exhausted(outcome) ==
    /\ Len(rj_hist) = MAX_RETRIES
    /\ \A i \in 1..Len(rj_hist) : rj_hist[i] = outcome

\* This call of request_json has returned (and its caller may have gone
\* on since).
Returned == rj_pc \in {"returned", "idle"} /\ rj_hist # <<>>

ReturnedNone == Returned /\ rj_ret = NonePayload

\* C4: request_json never raises, and returns None when the connection
\* fails on every attempt, on 403, on 404, on 429 on every attempt and on
\* a 200 whose body is not JSON.
C4_AbsentNeverRaises ==
    /\ rj_pc # "raised"
    /\ Exhausted("neterr") => ReturnedNone
    /\ Saw({"403"}) => ReturnedNone
    /\ Saw({"404"}) => ReturnedNone
    /\ Exhausted("429") => ReturnedNone
    /\ Saw({"badjson"}) => ReturnedNone

\* The connection failed on every attempt of a call.
C4_Witness == Exhausted("neterr") /\ ReturnedNone

\* C5: two consecutive calls of _enforce_min_delay return at least
\* MIN_REQUEST_DELAY_SECONDS apart.
C5_MinDelay ==
    pace_prev >= 0 => pace_last - pace_prev >= MIN_REQUEST_DELAY_SECONDS

\* The first attempt of a second request_json call had to wait for the
\* rest of the delay.
C5_Witness ==
    /\ ncalls = 2
    /\ Len(rj_hist) = 1
    /\ pace_last - pace_prev = MIN_REQUEST_DELAY_SECONDS

\* C6: a crawl given a time_filter outside the valid set makes no request
\* and no pacing call.
C6_InvalidWindowNoRequest ==
    (api = "scrape" /\ \E i \in 1..Len(time_filters) :
                           time_filters[i] \notin ValidTimeFilters)
        => (nphys = 0 /\ pace_last = -1)

\* C7: a 403 or 404 ends the call at once (None, no sleep after it); when
\* it answers the first attempt, the call made one request, slept for no
\* backoff or rate limit, and logged one warning and no error.
C7_ForbiddenNotFound ==
    /\ Saw({"403", "404"}) =>
          /\ ReturnedNone
          /\ rj_hist[Len(rj_hist)] \in {"403", "404"}
          /\ Len(rj_sleeps) = Len(rj_hist) - 1
    /\ (rj_hist # <<>> /\ rj_hist[1] \in {"403", "404"}) =>
          /\ Len(rj_hist) = 1
          /\ rj_sleeps = <<>>
          /\ LogCount(rj_log0, {"warning"}) = 1
          /\ LogCount(rj_log0, {"error"}) = 0

\* A call, not the first of the process, was answered 404.
C7_Witness == ReturnedNone /\ rj_hist = <<"404">> /\ ncalls = 2

\* C8: 429, 429, 200: the call sleeps RATE_LIMIT_WAIT_SECONDS twice, logs
\* one warning per 429 and returns the JSON value of the third response.
C8_RateLimitedTwice ==
    /\ (rj_hist = <<"429">> \/ rj_hist = <<"429", "429">>) =>
          /\ rj_pc = "attempt"
          /\ rj_sleeps = [i \in 1..Len(rj_hist) |-> RATE_LIMIT_WAIT_SECONDS]
          /\ LogCount(rj_log0, {"warning"}) = Len(rj_hist)
    /\ rj_hist = <<"429", "429", "200">> =>
          /\ Returned
          /\ rj_ret = served
          /\ rj_ret # NonePayload
          /\ rj_sleeps = <<RATE_LIMIT_WAIT_SECONDS, RATE_LIMIT_WAIT_SECONDS>>
          /\ LogCount(rj_log0, {"warning"}) = 2
          /\ LogCount(rj_log0, {"error"}) = 0

C8_Witness == Returned /\ rj_hist = <<"429", "429", "200">>

\* The walk that just ended did so on an absent page.
WalkEndedAbsent == api = "scrape" /\ w_pc = "idle" /\ w_end = "absent"

\* fetch_post_comments returned empty on a bad payload.
CommentsEndedBad ==
    api = "comments" /\ api_state = "returned" /\ BadCommentsPayload(rj_ret)

PairAt(n) ==
    <<keywords[((n - 1) \div Len(time_filters)) + 1],
      time_filters[((n - 1) % Len(time_filters)) + 1]>>

\* The fetched items that have an id.
FetchedPosts == SelectSeq(fetched, HasId)

\* C10: a crawl with valid time filters does not raise whatever the
\* remote errors, can always go on until it returns, has then run the
\* walker for every pair, and returns the deduplicated posts of every
\* page fetched.
C10_CrawlCompletes ==
    (api = "scrape" /\ \A i \in 1..Len(time_filters) :
                           time_filters[i] \in ValidTimeFilters)
        => /\ api_state # "raised"
           /\ rj_pc # "raised"
           /\ api_state = "running" => ENABLED Next
           /\ api_state = "returned" =>
                 /\ Len(runs) = Len(keywords) * Len(time_filters)
                 /\ \A n \in 1..Len(runs) : runs[n] = PairAt(n)
                 /\ DedupedFrom(api_ret, FetchedPosts)
                 /\ \A j \in 1..Len(FetchedPosts) :
                       \E i \in 1..Len(api_ret) :
                          api_ret[i].post_id = FetchedPosts[j].post_id

\* A crawl returned posts although the walk of its first pair ended on a
\* failed page.
C10_Witness ==
    /\ api = "scrape"
    /\ api_state = "returned"
    /\ Len(runs) = 2
    /\ faults > 0
    /\ \E i \in 1..Len(log) : log[i].event_type = "warning"
                              /\ log[i].stage = "search_subreddit_keyword"
    /\ api_ret # <<>>

\* The positions of an event in the trace of this call of request_json.
TraceAt(event) == {i \in 1..Len(rj_trace) : rj_trace[i] = event}

\* C11: one call of request_json makes at least one and at most
\* MAX_RETRIES physical requests, and every one of them, the first and
\* the retries, comes right after one call of _enforce_min_delay of its
\* own.
C11_PacedAttempts ==
    /\ Cardinality(TraceAt("get")) <= MAX_RETRIES
    /\ Cardinality(TraceAt("get")) = Len(rj_hist)
    /\ rj_pc = "returned" => Cardinality(TraceAt("get")) >= 1
    /\ \A i \in TraceAt("get") : i > 1 /\ rj_trace[i - 1] = "pace"
    /\ \A i \in TraceAt("pace") : i < Len(rj_trace) /\ rj_trace[i + 1] = "get"

\* A call used all its attempts: three requests, each after a pacing call.
C11_Witness ==
    /\ rj_pc = "returned"
    /\ rj_trace = <<"pace", "get", "sleep", "pace", "get", "sleep",
                    "pace", "get">>


\* The attempts of this call that ended in one of the outcomes.
AttemptsWith(outcomes) == {k \in 1..Len(rj_hist) : rj_hist[k] \in outcomes}

\* C12: when attempt k ends in a network failure or in a status other
\* than 200, 403, 404 and 429, an error line is logged; with attempts
\* left the call sleeps 2^(k-1) seconds and goes on to attempt k+1, with
\* none left it returns None.
C12_ExponentialBackoff ==
    /\ \A k \in AttemptsWith({"neterr", "500"}) :
          IF k < MAX_RETRIES
          THEN /\ Len(rj_sleeps) >= k
               /\ rj_sleeps[k] = 2^(k - 1)
               /\ Len(rj_hist) > k \/ (rj_pc = "attempt" /\ attempt = k + 1)
          ELSE ReturnedNone
    /\ StageLogCount(rj_log0, {"error"}, "request_json")
          = Cardinality(AttemptsWith({"neterr", "500", "badjson"}))

\* A network failure, then two 500s: sleeps of 1 and 2 seconds, then None.
C12_Witness ==
    /\ rj_hist = <<"neterr", "500", "500">>
    /\ rj_sleeps = <<1, 2>>
    /\ ReturnedNone
    /\ LogCount(rj_log0, {"error"}) = 3

\* C13: a 200 whose body is not JSON ends the call, at whatever attempt:
\* one error line for it, None returned, no request and no sleep after it.
C13_BadJsonTerminal ==
    \A k \in AttemptsWith({"badjson"}) :
        /\ k = Len(rj_hist)
        /\ ReturnedNone
        /\ Len(rj_sleeps) = k - 1
        /\ rj_trace[Len(rj_trace)] = "get"
        /\ log[Len(log)] = Entry("error", "request_json", "Invalid JSON payload")
        /\ Cardinality({i \in (rj_log0 + 1)..Len(log) :
                           log[i].what = "Invalid JSON payload"}) = 1

\* The second attempt of a call was answered 200 with a body that is not
\* JSON.
C13_Witness ==
    /\ rj_hist = <<"500", "badjson">>
    /\ ReturnedNone
    /\ rj_sleeps = <<1>>

\* Where the id occurs first in xs.
FirstIndex(xs, id) ==
    CHOOSE j \in 1..Len(xs) :
        /\ xs[j].post_id = id
        /\ \A l \in 1..(j - 1) : xs[l].post_id # id

\* C14: every record deduplicate_posts returns has, in the fields other
\* than search_keyword and time_filter, the values of the first input
\* record of its id, and the records come in the order in which their ids
\* first occur in the input.
C14_FirstSeenWins ==
    (api = "dedup" /\ api_state = "returned") =>
        /\ \A i \in 1..Len(api_ret) :
              /\ \E j \in 1..Len(posts) : posts[j].post_id = api_ret[i].post_id
              /\ api_ret[i].title
                    = posts[FirstIndex(posts, api_ret[i].post_id)].title
        /\ \A i, j \in 1..Len(api_ret) :
              i < j => FirstIndex(posts, api_ret[i].post_id)
                          < FirstIndex(posts, api_ret[j].post_id)

\* Two ids, the first of them met again later under another title.
C14_Witness ==
    /\ api = "dedup"
    /\ api_state = "returned"
    /\ Len(posts) = 3
    /\ Len(api_ret) = 2
    /\ posts[1].post_id = posts[3].post_id
    /\ posts[1].title # posts[3].title
    /\ api_ret[1].title = posts[1].title

\* C15: a crawl runs the walker once for every pair of the cross product
\* of its keywords and time filters, keywords outer, in the order given,
\* whether or not earlier pairs returned anything, and calls
\* deduplicate_posts once, after the last pair, on the concatenation of
\* what the walks returned.
C15_CrossProductThenDedup ==
    (api = "scrape" /\ \A i \in 1..Len(time_filters) :
                           time_filters[i] \in ValidTimeFilters)
        => /\ Len(runs) <= Len(keywords) * Len(time_filters)
           /\ \A n \in 1..Len(runs) : runs[n] = PairAt(n)
           /\ all_posts = (IF w_pc = "idle" THEN FetchedPosts
                           ELSE SubSeq(FetchedPosts, 1, Len(all_posts)))
           /\ StageLogCount(0, {"progress"}, "deduplicate_posts")
                 = (IF api_state = "returned" THEN 1 ELSE 0)
           /\ api_state = "returned" =>
                 /\ Len(runs) = Len(keywords) * Len(time_filters)
                 /\ log[Len(log)].stage = "deduplicate_posts"
                 /\ api_ret = deduplicate_posts(all_posts)

\* A crawl of two keywords and two time filters returned posts after four
\* walks, the first of which ended on a 403 with nothing.
C15_Witness ==
    /\ api = "scrape"
    /\ api_state = "returned"
    /\ runs = << <<"pricing", "year">>, <<"pricing", "month">>,
                 <<"support", "year">>, <<"support", "month">> >>
    /\ log[3] = Entry("warning", "search_subreddit_keyword",
                      "No payload returned")
    /\ api_ret # <<>>

\* C16: in one walk the first call of request_json carries no cursor,
\* every later call carries the next cursor of the page before it, and
\* the walk makes no call after a page whose next cursor is missing or
\* empty or whose fetch returned nothing.
C16_CursorChain ==
    api = "scrape" =>
        /\ Len(w_cursors) = w_calls
        /\ w_calls >= 1 => w_cursors[1] = None
        /\ \A n \in 2..w_calls : Truthy(w_cursors[n])
        /\ (w_pc = "wait" /\ w_calls > 1 /\ ~Saw({"200"})) =>
              /\ served.kind = "listing"
              /\ w_cursors[w_calls] = served.after
        /\ (w_pc = "page" /\ w_calls >= 1) =>
              /\ rj_ret = served
              /\ rj_ret.kind = "listing"
              /\ rj_ret.after \notin {None, ""}
        /\ (w_pc = "idle" /\ w_end = "no_after") =>
              /\ rj_ret = served
              /\ rj_ret.after \in {None, ""}
        /\ (w_pc = "idle" /\ w_end = "absent") =>
              rj_ret.kind \in {None, "empty"}

\* A walk of two pages: the second call carried the cursor of page 1, and
\* page 2 had an empty next cursor.
C16_Witness ==
    /\ api = "scrape"
    /\ w_pc = "idle"
    /\ w_end = "no_after"
    /\ w_cursors = <<None, "c2">>
    /\ served.after = ""

\* C17: the first pacing call of the process returns at the time it was
\* called; every pacing call, whether it waited or not and whatever the
\* request after it gives, sets _LAST_REQUEST_TS to the time it returns
\* at; nothing else changes _LAST_REQUEST_TS, which never decreases.
C17_StampMonotone ==
    [][ /\ LAST_REQUEST_TS' >= LAST_REQUEST_TS
        /\ nphys' = nphys => LAST_REQUEST_TS' = LAST_REQUEST_TS
        /\ nphys' # nphys =>
              /\ LAST_REQUEST_TS' >= now
              /\ LAST_REQUEST_TS' <= now'
              /\ LAST_REQUEST_TS' = pace_last'
              /\ LAST_REQUEST_TS' > 0
        /\ (nphys = 0 /\ nphys' # nphys) => LAST_REQUEST_TS' = now ]_vars

\* Two requests failed: the first was stamped at the start time without a
\* wait, the second a full delay later.
C17_Witness ==
    /\ nphys = 2
    /\ rj_hist = <<"neterr", "500">>
    /\ pace_prev = 1
    /\ LAST_REQUEST_TS = pace_last
    /\ pace_last >= pace_prev + MIN_REQUEST_DELAY_SECONDS
    /\ StageLogCount(0, {"progress"}, "_enforce_min_delay") = 1

\* C18: fetch_post_comments calls request_json once; when that returns
\* nothing, a JSON value that is not a list, or a list of fewer than two
\* elements, it logs one warning and returns the empty list, and raises
\* nothing.
C18_OneCallBadShape ==
    api = "comments" =>
        /\ c_calls <= 1
        /\ api_state # "raised"
        /\ rj_pc # "raised"
        /\ api_state = "returned" => c_calls = 1
        /\ (api_state = "returned"
              /\ rj_ret.kind \in {None, "empty", "object", "list1"}) =>
              /\ api_ret = <<>>
              /\ log[Len(log)].event_type = "warning"
              /\ log[Len(log)].stage = "fetch_post_comments"
              /\ StageLogCount(rj_log0, {"warning"}, "fetch_post_comments") = 1

\* The comment endpoint answered a list of one element.
C18_Witness ==
    /\ api = "comments"
    /\ api_state = "returned"
    /\ c_calls = 1
    /\ rj_ret.kind = "list1"
    /\ api_ret = <<>>

\* The ids of the top-level comments, of their direct replies and of the
\* replies of those, in a comment listing.
TopLevelIds(listing) == {listing[i].id : i \in 1..Len(listing)}
ReplyIds(listing) ==
    UNION {TopLevelIds(listing[i].replies) : i \in 1..Len(listing)}
DeeperIds(listing) ==
    UNION {ReplyIds(listing[i].replies) : i \in 1..Len(listing)}

\* C19: every record fetch_post_comments returns has depth 0 and is a
\* top-level comment, or depth 1 and is a direct reply to one; replies to
\* replies, present in the payload, get no record.
C19_DepthZeroOrOne ==
    (api = "comments" /\ api_state = "returned" /\ rj_ret.kind = "list2") =>
        /\ \A n \in 1..Len(api_ret) :
              /\ api_ret[n].depth \in {0, 1}
              /\ api_ret[n].depth = 0 =>
                    api_ret[n].comment_id \in TopLevelIds(rj_ret.children)
              /\ api_ret[n].depth = 1 =>
                    api_ret[n].comment_id \in ReplyIds(rj_ret.children)
              /\ api_ret[n].comment_id \notin DeeperIds(rj_ret.children)

\* The payload held a reply to the reply r1: r1 has a record, at depth 1,
\* among four records.
C19_Witness ==
    /\ api = "comments"
    /\ api_state = "returned"
    /\ DeeperIds(rj_ret.children) # {}
    /\ Len(api_ret) = 4
    /\ api_ret[1] = CommentRecord("c1", 0)
    /\ api_ret[2] = CommentRecord("r1", 1)

\* C20: every step leaves the event log as it is or adds lines at its
\* end, each of event type progress, warning or error: the log before
\* the step is a prefix of the log after it.
C20_LogAppendOnly ==
    [][ /\ Len(log') >= Len(log)
        /\ SubSeq(log', 1, Len(log)) = log
        /\ \A i \in (Len(log) + 1)..Len(log') :
              log'[i].event_type \in {"progress", "warning", "error"} ]_vars

\* A log with lines of the three event types, a pacing wait among them.
C20_Witness ==
    /\ Len(log) >= 5
    /\ {log[i].event_type : i \in 1..Len(log)} = {"progress", "warning", "error"}
    /\ StageLogCount(0, {"progress"}, "_enforce_min_delay") >= 1

\* The dict of deduplicate_posts after the first n records of xs.
DedupAfter(xs, n) == DedupFold(<<>>, SubSeq(xs, 1, n))

\* C21: a record fresh from normalize_post has one search keyword and one
\* time filter, those of the query that found it; after every merge the
\* two sets of each record kept so far hold what they held before, and
\* are never empty.
C21_ProvenanceGrows ==
    api = "dedup" =>
        /\ \A i \in 1..Len(posts) :
              \E q \in DedupQueries :
                 /\ posts[i].search_keyword = <<q[2]>>
                 /\ posts[i].time_filter = <<q[3]>>
        /\ \A n \in 0..(Len(posts) - 1) :
              \A i \in 1..Len(DedupAfter(posts, n)) :
                 LET before == DedupAfter(posts, n)[i]
                     now_   == DedupAfter(posts, n + 1)[i]
                 IN  /\ now_.post_id = before.post_id
                     /\ ToSet(before.search_keyword) # {}
                     /\ ToSet(before.time_filter) # {}
                     /\ ToSet(before.search_keyword)
                           \subseteq ToSet(now_.search_keyword)
                     /\ ToSet(before.time_filter)
                           \subseteq ToSet(now_.time_filter)
        /\ api_state = "returned" =>
              /\ api_ret = DedupAfter(posts, Len(posts))
              /\ \A i \in 1..Len(api_ret) :
                    /\ api_ret[i].search_keyword # <<>>
                    /\ api_ret[i].time_filter # <<>>

\* One id found by three queries: two merges, after which its record has
\* two keywords and two time filters.
C21_Witness ==
    /\ api = "dedup"
    /\ api_state = "returned"
    /\ Len(posts) = 3
    /\ Len(api_ret) = 1
    /\ Len(DedupAfter(posts, 2)) = 1
    /\ Len(DedupAfter(posts, 2)[1].time_filter) = 1
    /\ api_ret[1].search_keyword = <<"pricing", "support">>
    /\ api_ret[1].time_filter = <<"month", "year">>

\* C22: the wait a pacing call imposes on a request of one run is the
\* wait the run's own earlier requests alone would impose: the requests
\* of another run of the process change nothing to it.
C22_PacingPerRun == ~interfered

\* C23: request_json does not sleep after its last attempt: when attempt
\* MAX_RETRIES ends in a network failure, a 429 or another status, None
\* is returned at once, so a call sleeps at most MAX_RETRIES - 1 times
\* for backoff or rate limit.
C23_NoSleepAfterLastAttempt ==
    /\ Len(rj_sleeps) <= MAX_RETRIES - 1
    /\ Cardinality(TraceAt("sleep")) = Len(rj_sleeps)
    /\ (Len(rj_hist) = MAX_RETRIES
          /\ rj_hist[MAX_RETRIES] \in {"neterr", "429", "500"}) =>
          /\ ReturnedNone
          /\ rj_trace[Len(rj_trace)] = "get"
          /\ Len(rj_sleeps) = MAX_RETRIES - 1
          /\ rj_pc = "returned" => now - pace_last \in Latencies

\* A call that ended on a 500 at its third attempt, after two sleeps.
C23_Witness ==
    /\ rj_pc = "returned"
    /\ rj_hist = <<"429", "neterr", "500">>
    /\ rj_sleeps = <<RATE_LIMIT_WAIT_SECONDS, 2>>
    /\ ReturnedNone

\* The API function has returned or raised.
Done == api_state \in {"returned", "raised"}

\* The steps one page of a walk takes at most: the call of request_json,
\* its attempts, and the rest of the loop body.
PageCost == MAX_RETRIES + 2

\* The steps one walk takes at most.
WalkCost == 1 + (IF pages >= 1 THEN pages ELSE 1) * PageCost

\* The pairs whose walk is over.
PairsDone ==
    (IF ki - 1 < Len(keywords) THEN ki - 1 ELSE Len(keywords))
        * Len(time_filters) + (ti - 1)

\* The steps a crawl has left at most: of the walk it is in, of the walks
\* to come, and its last step.
Rank ==
    IF Done THEN 0
    ELSE 1 + CASE w_pc = "idle" ->
                    (Len(keywords) * Len(time_filters) - PairsDone) * WalkCost
               [] w_pc = "page" ->
                    (Len(keywords) * Len(time_filters) - PairsDone - 1) * WalkCost
                    + ((IF pages >= 1 THEN pages ELSE 1) - page + 1) * PageCost
               [] w_pc = "wait" ->
                    (Len(keywords) * Len(time_filters) - PairsDone - 1) * WalkCost
                    + ((IF pages >= 1 THEN pages ELSE 1) - page) * PageCost
                    + 1
                    + (IF rj_pc = "attempt" THEN MAX_RETRIES - attempt + 1
                       ELSE 0)

\* C24: a crawl ends, whatever the remote service does: it can always
\* take a step until it has returned or raised, and every step brings it
\* closer to that; and it makes at most
\* len(keywords) * len(time_filters) * max(1, pages) * MAX_RETRIES
\* physical requests.
C24_TerminatesWithinBound ==
    /\ [](api = "scrape" =>
             /\ nphys <= Len(keywords) * Len(time_filters)
                            * (IF pages >= 1 THEN pages ELSE 1) * MAX_RETRIES
             /\ Rank >= 0
             /\ ~Done => ENABLED Next)
    /\ [][api = "scrape" => Rank' < Rank]_vars

\* A crawl of one pair and one page ended after MAX_RETRIES requests.
C24_Witness ==
    /\ api = "scrape"
    /\ api_state = "returned"
    /\ Len(keywords) * Len(time_filters) = 1
    /\ pages <= 1
    /\ nphys = MAX_RETRIES
    /\ Rank = 0

C26_EmptyValueAsAbsent ==
    /\ (rj_pc = "returned" /\ rj_hist[Len(rj_hist)] = "200"
          /\ served = EmptyPayload) =>
          /\ rj_ret = EmptyPayload
          /\ rj_ret # NonePayload
          /\ StageLogCount(rj_log0, {"warning", "error"}, "request_json")
                = Len(rj_hist) - 1
    /\ (api = "scrape" /\ w_pc = "page" /\ w_calls >= 1) =>
          rj_ret # EmptyPayload
    /\ (api = "scrape" /\ api_state = "running" /\ w_pc = "idle"
          /\ rj_pc = "idle" /\ rj_ret = EmptyPayload) =>
          /\ w_end = "absent"
          /\ log[Len(log)] = Entry("warning", "search_subreddit_keyword",
                                   "No payload returned")
          /\ StageLogCount(rj_log0, {"warning"}, "search_subreddit_keyword") = 1
    /\ (api = "comments" /\ api_state = "returned"
          /\ rj_ret = EmptyPayload) =>
          /\ api_ret = <<>>
          /\ log[Len(log)] = Entry("warning", "fetch_post_comments",
                                   "No comments payload returned")
          /\ StageLogCount(rj_log0, {"warning"}, "fetch_post_comments") = 1

\* The second page of a walk was an empty JSON value: the walk ended
\* with the walker's warning as the only warning or error of the call.
C26_Witness ==
    /\ api = "scrape"
    /\ w_pc = "idle"
    /\ w_end = "absent"
    /\ w_calls = 2
    /\ rj_hist = <<"200">>
    /\ rj_ret = EmptyPayload
    /\ LogCount(rj_log0, {"warning", "error"}) = 1

\* C27: deduplicate_posts applied to what it returned returns the same
\* records, in the same order, with the same provenance; and it returns
\* no record whose post_id is missing or empty.
C27_DedupIdempotent ==
    (api = "dedup" /\ api_state = "returned") =>
        /\ deduplicate_posts(api_ret) = api_ret
        /\ \A i \in 1..Len(api_ret) : api_ret[i].post_id \notin {None, ""}
        /\ \A i, j \in 1..Len(api_ret) :
              api_ret[i].post_id = api_ret[j].post_id => i = j

\* Three records, one without an id and two of one id: one record comes
\* back, with both keywords, and comes back again when passed again.
C27_Witness ==
    /\ api = "dedup"
    /\ api_state = "returned"
    /\ Len(posts) = 3
    /\ \E i \in 1..Len(posts) : posts[i].post_id \in {None, ""}
    /\ Len(api_ret) = 1
    /\ Len(api_ret[1].search_keyword) = 2
    /\ deduplicate_posts(api_ret) = api_ret

\* The comments of a listing that have an id.
WithId(listing) == SelectSeq(listing, LAMBDA c : c.id \notin {None, ""})

\* The position in recs of the k-th record of depth 0, and the position
\* after the last record that follows it before the next one of depth 0.
ZeroPos(recs, k) ==
    CHOOSE n \in 1..Len(recs) :
        /\ recs[n].depth = 0
        /\ Cardinality({m \in 1..n : recs[m].depth = 0}) = k
SegmentEnd(recs, k) ==
    IF k < Cardinality({m \in 1..Len(recs) : recs[m].depth = 0})
    THEN ZeroPos(recs, k + 1) ELSE Len(recs) + 1

\* C28: fetch_post_comments skips a top-level comment without an id with
\* all its replies, and a reply without an id alone: the records of
\* depth 0 are the top-level comments with an id, in order, and each is
\* followed, up to the next record of depth 0, by the records of depth 1
\* of its own replies with an id, in order.
C28_SkipsAndOrder ==
    (api = "comments" /\ api_state = "returned" /\ rj_ret.kind = "list2") =>
        LET kept == WithId(rj_ret.children)
            zero == SelectSeq(api_ret, LAMBDA r : r.depth = 0)
        IN  /\ Len(zero) = Len(kept)
            /\ api_ret # <<>> => api_ret[1].depth = 0
            /\ \A k \in 1..Len(kept) :
                  LET own == IF kept[k].isdict THEN WithId(kept[k].replies)
                             ELSE <<>>
                      from == ZeroPos(api_ret, k)
                  IN  /\ api_ret[from] = CommentRecord(kept[k].id, 0)
                      /\ SegmentEnd(api_ret, k) - from - 1 = Len(own)
                      /\ \A j \in 1..Len(own) :
                            api_ret[from + j] = CommentRecord(own[j].id, 1)

\* A comment without an id was skipped with its reply r3; the next one
\* has its records.
C28_Witness ==
    /\ api = "comments"
    /\ api_state = "returned"
    /\ rj_ret.kind = "list2"
    /\ Len(rj_ret.children) = 2
    /\ rj_ret.children[1].id = None
    /\ rj_ret.children[1].replies # <<>>
    /\ api_ret = <<CommentRecord("c3", 0), CommentRecord("r4", 1)>>

=============================================================================
